---- MODULE Spec2Model ----
(***************************************************************************)
(* Git Flow Visualizer: the live repository-state tracking core.           *)
(*                                                                         *)
(* The main process (GitFlowVisualizerApp), the log-tail watcher           *)
(* (GitWatcher), the push channel (HookServer), the dispatcher             *)
(* (SocketServer) and the renderer's commit list (App.tsx) as one state    *)
(* machine.  Node runs every callback to its next await, so an action is   *)
(* one such run; the awaits (watcher close, git log, git show) and the     *)
(* debounce timer are the points where other callbacks interleave.         *)
(***************************************************************************)
EXTENDS Integers, Sequences, FiniteSets, TLC

\* ---------------------------------------------------------------- bounds
\* The inputs of the session pipeline (Spec).
MaxLoads == 2      \* load-repo requests
MaxGitActs == 1    \* git operations run in the repositories
MaxPosts == 1      \* POST /event requests
MaxFsEvents == 1   \* chokidar 'change' notifications
MaxConns == 1      \* socket connects and disconnects
\* The inputs of the log-tail watcher (SpecWatcher).
WatcherLoads == 2
WatcherGitActs == 1
WatcherFsEvents == 2
\* The inputs of the dispatcher and its subscribers (SpecDispatch).
DispatchLoads == 1
DispatchPosts == 1
DispatchConns == 3
\* The inputs of repository loading (SpecLoad).
LoadLoads == 2
LoadGitActs == 1
LoadConns == 1
MaxLimit == 2      \* the limits getFullLog is tried with: 0..MaxLimit
\* The inputs of the push channel (SpecHook).
HookLoads == 1
HookPosts == 2
HookConns == 1
\* The inputs of live detection on a loaded repository (SpecLive).
UnitCalls == 4
UnitGitActs == 1
UnitFsEvents == 2
CheckoutPosts == 2
MaxLines == 3
ListenerCalls == 6
UnknownGitActs == 2
UnknownFsEvents == 2
LiveGitActs == 1
LivePosts == 1
LiveFsEvents == 1

\* ------------------------------------------------------------ the world
NULL == "null"
\* An optional log line is a sequence of at most one line.
NoLine == <<>>

\* Directories that hold a .git directory, and one directory that does not.
Repos == {"A", "B"}
NoGitDir == "X"
Paths == Repos \cup {NoGitDir}

\* socket.io connections
Clients == {"s1", "s2"}

\* The hash of the k-th commit of repository p.
HashNames == [A |-> <<"a1", "a2", "a3", "a4", "a5", "a6">>,
              B |-> <<"b1", "b2", "b3", "b4", "b5", "b6">>]
Hash(p, k) == HashNames[p][k]

RECURSIVE Reverse(_)
Reverse(s) == IF s = <<>> THEN <<>> ELSE Append(Reverse(Tail(s)), Head(s))

Range(s) == {s[i] : i \in 1..Len(s)}

RemoveFrom(s, i) == SubSeq(s, 1, i - 1)

RemoveAt(s, i) == SubSeq(s, 1, i - 1) \o SubSeq(s, i + 1, Len(s))

VARIABLES
  \* GitFlowVisualizerApp
  currentRepoPath,   \* string | null
  gitService,        \* the path the GitService was constructed for | null
  gitWatcher,        \* index into watchers; 0 is null
  watchers,          \* every GitWatcher instance constructed so far
  loads,             \* loadRepository runs suspended at an await
  lookups,           \* getCommit calls in flight, in the order they were made
  lastLoad,          \* what the most recent finished loadRepository returned
  recentRepos,       \* ConfigStore: the recent-repositories list
  lastRepoPath,      \* ConfigStore: the last opened repository path
  raw,               \* what a git command printed: lines, each split in parts
  \* the repositories on disk
  history,           \* path -> the commits of the repository, oldest first
  reflog,            \* path -> the last line of .git/logs/HEAD, if the file exists
  \* SocketServer
  clientConnected,
  sockets,           \* the connections socket.io holds open
  emitLog,           \* every emitInitialGraph / emitGitEvent / emitToast call
  \* renderer (App.tsx), one per connection
  commits,
  ui,                \* the other state of App: loading, repoPath, replay
  \* HookServer: the last POST /event request and the response it got
  posted,
  \* start-up: the two listeners, how far startServers has come, and the
  \* error boxes shown
  servers,
  \* the inputs the environment may still make, by kind
  budget

vars == <<currentRepoPath, gitService, gitWatcher, watchers, loads, lookups,
          lastLoad, recentRepos, lastRepoPath, raw, history, reflog, clientConnected, sockets, emitLog,
          commits, ui, posted, servers, budget>>

appVars == <<currentRepoPath, gitService, gitWatcher, loads, lastLoad,
             recentRepos, lastRepoPath>>
diskVars == <<history, reflog>>
socketVars == <<clientConnected, sockets>>

\* One input of kind k is made.
Spend(k) == budget[k] > 0 /\ budget' = [budget EXCEPT ![k] = @ - 1]

\* ------------------------------------------------------ renderer, App.tsx

Ids(cs) == Range(cs)

\* setCommits(data.commits)
HandleInitialGraph(prev, data) == data.commits

HandleGitEventNoGuard(prev, data) ==
  IF data.commit # NULL THEN Append(prev, data.commit) ELSE prev

\* append data.commit unless a commit of that id is already in the list
HandleGitEvent(prev, data) ==
  IF data.commit # NULL
  THEN IF \E i \in 1..Len(prev) : prev[i] = data.commit
       THEN prev
       ELSE Append(prev, data.commit)
  ELSE prev

\* The state of App besides the commit list, after the component mounted:
\* the useState and useRef initial values.  ipc is the id of the load-repo
\* call handleRepoSelected awaits (0: none), replays are the handleReplay
\* runs made so far.
NewApp ==
  [loading |-> FALSE, repoPath |-> NULL, ipc |-> 0, isReplaying |-> FALSE,
   stopReplayRef |-> FALSE, replays |-> <<>>]

\* setLoading(false) of handleInitialGraph
HandleInitialGraphLoading(u, data) == [u EXCEPT !.loading = FALSE]

\* What a logged emission did to the App state of the renderers it went to.
Delivered(u, entry) ==
  [c \in Clients |->
     IF c \in entry.to /\ entry.ev = "initial_graph"
     THEN HandleInitialGraphLoading(u[c], entry)
     ELSE u[c]]

\* socketClient forwards each socket event to the registered listener
OnSocketEvent(prev, msg) ==
  CASE msg.ev = "initial_graph" -> HandleInitialGraph(prev, msg)
    [] msg.ev = "git_event" -> HandleGitEvent(prev, msg)
    [] OTHER -> prev

\* new Date(c.date).getTime() of the commit with id h: the k-th commit of
\* a repository was made at time k.
GetTime(h) == CHOOSE k \in 1..6 : \E p \in Repos : Hash(p, k) = h

\* x put into the list s, which is in date order, behind every entry that
\* is not younger than x
RECURSIVE InsertByDate(_, _)
InsertByDate(x, s) ==
  IF s = <<>> THEN <<x>>
  ELSE IF GetTime(Head(s)) <= GetTime(x)
       THEN <<Head(s)>> \o InsertByDate(x, Tail(s))
       ELSE <<x>> \o s

\* [...commits].sort((a, b) => getTime(a.date) - getTime(b.date)): oldest
\* first, entries of one date in the order they had
RECURSIVE SortByDate(_)
SortByDate(cs) ==
  IF cs = <<>> THEN <<>>
  ELSE InsertByDate(cs[Len(cs)], SortByDate(SubSeq(cs, 1, Len(cs) - 1)))

\* A handleReplay run suspended at a timer: sortedCommits, the loop index
\* i, and where it waits ("start": before the loop, "step": in the loop
\* body before the append, "done": returned).  stopped tells how it ended.
Replay(cs) == [sortedCommits |-> cs, i |-> 0, pc |-> "start", stopped |-> FALSE]

\* The head of the replay loop, reached when a timer has run out: the loop
\* ends when i has reached the length or stopReplayRef.current is set, and
\* then setIsReplaying(false) follows.
LoopHead(u, k) ==
  LET r == u.replays[k]
  IN IF r.i >= Len(r.sortedCommits)
     THEN [u EXCEPT !.replays[k].pc = "done", !.isReplaying = FALSE]
     ELSE IF u.stopReplayRef
          THEN [u EXCEPT !.replays[k].pc = "done",
                         !.replays[k].stopped = TRUE, !.isReplaying = FALSE]
          ELSE [u EXCEPT !.replays[k].pc = "step"]

\* The Replay button, shown while isReplaying is false: handleReplay up to
\* its first await.
HandleReplay(c) ==
  /\ Spend("replays")
  /\ ~ ui[c].isReplaying
  /\ ui[c].repoPath # NULL /\ ~ ui[c].loading
  /\ Len(commits[c]) # 0
  /\ ui' = [ui EXCEPT ![c].isReplaying = TRUE, ![c].stopReplayRef = FALSE,
                      ![c].replays = Append(@, Replay(SortByDate(commits[c])))]
  /\ commits' = [commits EXCEPT ![c] = <<>>]
  /\ UNCHANGED <<raw, appVars, watchers, lookups, diskVars, socketVars,
                 emitLog, posted, servers>>

\* The first timer of a replay runs out: the loop is entered.
ReplayStart(c, k) ==
  /\ k \in 1..Len(ui[c].replays)
  /\ ui[c].replays[k].pc = "start"
  /\ ui' = [ui EXCEPT ![c] = LoopHead(@, k)]
  /\ UNCHANGED <<raw, appVars, watchers, lookups, diskVars, socketVars,
                 emitLog, commits, posted, servers, budget>>

\* The timer of a loop body runs out: sortedCommits[i] is appended, i++,
\* and the loop head is evaluated.
ReplayStep(c, k) ==
  /\ k \in 1..Len(ui[c].replays)
  /\ ui[c].replays[k].pc = "step"
  /\ LET r == ui[c].replays[k]
     IN /\ commits' = [commits EXCEPT
                         ![c] = Append(@, r.sortedCommits[r.i + 1])]
        /\ ui' = [ui EXCEPT
                    ![c] = LoopHead([@ EXCEPT !.replays[k].i = r.i + 1], k)]
  /\ UNCHANGED <<raw, appVars, watchers, lookups, diskVars, socketVars,
                 emitLog, posted, servers, budget>>

\* The Stop button, shown while isReplaying is true
HandleStopReplay(c) ==
  /\ ui[c].isReplaying
  /\ ui[c].repoPath # NULL /\ ~ ui[c].loading
  /\ ui' = [ui EXCEPT ![c].stopReplayRef = TRUE, ![c].isReplaying = FALSE]
  /\ UNCHANGED <<raw, appVars, watchers, lookups, diskVars, socketVars,
                 emitLog, commits, posted, servers, budget>>

\* ------------------------------------------------- SocketServer, socket.ts

IoEmitToAll(conn, msg) == Clients

\* this.io.emit(event, payload): the connections that get the message
IoEmit(conn, msg) == conn

\* if (!this.io || !this.clientConnected) return
EmitGuard(flag) == flag

\* One emit* call on the dispatcher state d = [log, rc]: the call is logged
\* with the connections open at that moment (conn) and the connections the
\* message went to (to), and every receiving renderer handles it.
Emit(d, msg) ==
  LET to == IF EmitGuard(clientConnected) THEN IoEmit(sockets, msg) ELSE {}
      entry == [msg EXCEPT !.to = to, !.conn = sockets]
  IN [log |-> Append(d.log, entry),
      rc |-> [c \in Clients |->
                IF c \in to THEN OnSocketEvent(d.rc[c], msg) ELSE d.rc[c]]]

\* src and at are not sent: src names the handler that made the call, at is
\* the arrival number of the signal the handler was started for (0: none).
Msg(ev, src, type, commit, ref, commitId, remote, branch, repoPath, cs) ==
  [ev |-> ev, src |-> src, type |-> type, commit |-> commit, ref |-> ref,
   commitId |-> commitId, remote |-> remote, branch |-> branch,
   repoPath |-> repoPath, commits |-> cs, to |-> {}, conn |-> {}, at |-> 0]

InitialGraphMsgNotSent(repoPath, cs) ==
  Msg("toast", "load", "success", NULL, NULL, NULL, NULL, NULL, NULL, <<>>)

InitialGraphMsg(repoPath, cs) ==
  Msg("initial_graph", "load", NULL, NULL, NULL, NULL, NULL, NULL, repoPath,
      cs)

GitEventMsg(src, type, commit, ref, commitId, remote, branch) ==
  Msg("git_event", src, type, commit, ref, commitId, remote, branch, NULL,
      <<>>)

ToastMsg(src, type) ==
  Msg("toast", src, type, NULL, NULL, NULL, NULL, NULL, NULL, <<>>)

Dispatcher == [log |-> emitLog, rc |-> commits]

\* The arrival number of the signal a handler is started for now: later than
\* every signal whose lookup is pending or whose event was emitted.
NextArrival ==
  LET seen == {lookups[i].at : i \in 1..Len(lookups)}
                \cup {emitLog[k].at : k \in 1..Len(emitLog)} \cup {0}
  IN 1 + CHOOSE n \in seen : \A m \in seen : m <= n

\* io.on('connection'): clientConnected = true
Connect(c) ==
  /\ Spend("conn")
  /\ servers.socket = "listening"
  /\ c \notin sockets
  /\ sockets' = sockets \cup {c}
  /\ clientConnected' = TRUE
  /\ UNCHANGED <<ui, raw, appVars, watchers, lookups, diskVars, emitLog, commits, posted, servers>>

\* socket.on('disconnect'): clientConnected = false
Disconnect(c) ==
  /\ Spend("conn")
  /\ c \in sockets
  /\ sockets' = sockets \ {c}
  /\ clientConnected' = FALSE
  /\ UNCHANGED <<ui, raw, appVars, watchers, lookups, diskVars, emitLog, commits, posted, servers>>

\* ------------------------------------------- the repositories on disk

\* A line of .git/logs/HEAD, "<old> <new> <ident> <time> <tz>\t<action>":
\* n tells two lines apart (old hash and time), segs is the number of
\* tab-separated segments, hdr the number of space-separated tokens before
\* the tab, new the second of them; c, m and k say whether the text after
\* the tab, in lower case, contains "commit", "merge", "checkout"; to is the
\* destination of "checkout: moving from X to Y" as the line spells it, or
\* NULL when the text has no such part.
Line(n, segs, hdr, new, c, m, k, to) ==
  [n |-> n, segs |-> segs, hdr |-> hdr, new |-> new, c |-> c, m |-> m,
   k |-> k, to |-> to]

\* What git writes: op is the shape of the entry it appends.
\* "rebase" is the entry "rebase (start): checkout <upstream>" of git rebase,
\* "nohash" an entry whose second header token is empty.
GitOps == {"commit", "merge", "checkout", "checkout-cased", "reset",
           "rebase", "noreason", "nohash", "rmlog"}

HeadOf(p) == history[p][Len(history[p])]

LineOf(op, n, new) ==
  CASE op = "commit"   -> Line(n, 2, 6, new, TRUE, FALSE, FALSE, NULL)
    [] op = "merge"    -> Line(n, 2, 6, new, FALSE, TRUE, FALSE, NULL)
    [] op = "checkout" -> Line(n, 2, 6, new, FALSE, FALSE, TRUE, "dev")
    [] op = "checkout-cased" ->
                          Line(n, 2, 6, new, FALSE, FALSE, TRUE, "Dev")
    [] op = "reset"    -> Line(n, 2, 6, new, FALSE, FALSE, FALSE, NULL)
    [] op = "rebase"   -> Line(n, 2, 6, new, FALSE, FALSE, TRUE, NULL)
    [] op = "nohash"   -> Line(n, 2, 6, NULL, FALSE, FALSE, FALSE, NULL)
    [] OTHER           -> Line(n, 1, 6, new, FALSE, FALSE, FALSE, NULL)

\* Every entry git appends differs from the ones before it (old hash, time).
Serial == budget.acts

\* git commit / merge / checkout / reset / update-ref run in repository p;
\* "rmlog" is the reference log removed or made unreadable.
GitAct(p, op) ==
  /\ Spend("acts")
  /\ LET fresh == op \in {"commit", "merge"}
         new == IF fresh THEN Hash(p, Len(history[p]) + 1) ELSE HeadOf(p)
     IN /\ history' = [history EXCEPT
                         ![p] = IF fresh THEN Append(@, new) ELSE @]
        /\ reflog' = [reflog EXCEPT
                        ![p] = IF op = "rmlog" THEN NoLine
                               ELSE <<LineOf(op, Serial, new)>>]
  /\ UNCHANGED <<ui, raw, appVars, watchers, lookups, socketVars, emitLog, commits,
                 posted, servers>>

\* ---------------------------------------------- -------------- GitService

MAX_COMMITS_TO_LOAD == 5000

Min(a, b) == IF a < b THEN a ELSE b

\* The line git prints for commit h with the format
\* %H|||%P|||%an|||%ae|||%ad|||%s|||%D, split at the delimiter.
RawRecord(h) == <<h, "", "an", "ae", "ad", "s", "">>

\* What git log --all -n n prints: the n most recent commits, most recent
\* first, one line each.
GitLogOutput(p, n) ==
  LET all == Reverse(history[p])
  IN [i \in 1..Min(Len(all), n) |-> RawRecord(all[i])]

\* String.prototype.split(" ") on the parents field
SplitSpaces(str) ==
  CASE str = "a1" -> <<"a1">>
    [] str = "a1 b1" -> <<"a1", "b1">>
    [] OTHER -> <<str>>

\* parseRefs: split at ",", trim, drop what is empty
ParseRefs(refs) ==
  CASE refs = "" -> <<>>
    [] refs = "HEAD -> main, tag: v1" -> <<"HEAD -> main", "tag: v1">>
    [] OTHER -> <<refs>>

\* parts[k] of the source, undefined (falsy) beyond the end: parts[k + 1]
Part(parts, k) == IF k + 1 <= Len(parts) THEN parts[k + 1] ELSE ""

\* The CommitNode getFullLog builds from the parts of a line.
CommitNode(parts) ==
  [id |-> Part(parts, 0),
   parents |-> IF Part(parts, 1) # "" THEN SplitSpaces(Part(parts, 1)) ELSE <<>>,
   author |-> Part(parts, 2), email |-> Part(parts, 3), date |-> Part(parts, 4),
   message |-> Part(parts, 5),
   refs |-> IF Part(parts, 6) # "" THEN ParseRefs(Part(parts, 6)) ELSE <<>>]

\* !line.trim(): the line is empty or blank
IsBlank(line) == line = <<"">>

\* The loop of getFullLog: a blank line and a line of fewer than 6 parts
\* are skipped.
RECURSIVE ParseRecords(_)
ParseRecords(lines) ==
  IF lines = <<>> THEN <<>>
  ELSE IF IsBlank(Head(lines)) THEN ParseRecords(Tail(lines))
  ELSE IF Len(Head(lines)) < 6 THEN ParseRecords(Tail(lines))
  ELSE <<CommitNode(Head(lines))>> \o ParseRecords(Tail(lines))

GetCommitNodeNoRefs(parts) ==
  [id |-> Part(parts, 0),
   parents |-> IF Part(parts, 1) # "" THEN SplitSpaces(Part(parts, 1)) ELSE <<>>,
   author |-> Part(parts, 2), email |-> Part(parts, 3), date |-> Part(parts, 4),
   message |-> Part(parts, 5),
   refs |-> <<>>]

\* The CommitNode getCommit returns, built from the parts of the output.
GetCommitNode(parts) ==
  [id |-> Part(parts, 0),
   parents |-> IF Part(parts, 1) # "" THEN SplitSpaces(Part(parts, 1)) ELSE <<>>,
   author |-> Part(parts, 2), email |-> Part(parts, 3), date |-> Part(parts, 4),
   message |-> Part(parts, 5),
   refs |-> IF Part(parts, 6) # "" THEN ParseRefs(Part(parts, 6)) ELSE <<>>]

\* getCommit on what git show -s printed, the one line of the commit: the
\* CommitNode, or none when it throws "Invalid commit format".
GetCommitOf(parts) ==
  IF Len(parts) < 6 THEN <<>> ELSE <<GetCommitNode(parts)>>

GetFullLogUnbounded(p, n) == ParseRecords(GitLogOutput(p, Len(history[p])))

\* getFullLog with the limit n passed as -n
GetFullLogWith(p, n) == ParseRecords(GitLogOutput(p, n))

\* getFullLog(): the commits by their ids
GetFullLog(p) ==
  LET nodes == GetFullLogWith(p, MAX_COMMITS_TO_LOAD)
  IN [i \in 1..Len(nodes) |-> nodes[i].id]

\* git show -s <hash> in the repository the service was constructed for
CommitResolves(svc, hash) == hash \in Range(history[svc])

\* getCommit(hash) for a hash that resolves: the parse of the line printed
GetCommit(hash) == GetCommitOf(RawRecord(hash))

\* The lines a git command can print with the format of the service: a blank
\* line, and the record of a commit (a root commit without decorations, or
\* a merge that HEAD and a tag point at) cut to its first 1, 5, 6 or all 7
\* fields.
RecordLine(h, par, d, n) == SubSeq(<<h, par, "an", "ae", "ad", "s", d>>, 1, n)

PrintedLines ==
  {<<"">>} \cup
  {RecordLine(h, v[1], v[2], n) :
     h \in {"a1", "b1"},
     v \in {<<"", "">>, <<"a1 b1", "HEAD -> main, tag: v1">>},
     n \in {1, 5, 6, 7}}

\* git prints the next line of its output
GitPrints(line) ==
  /\ Len(raw) < MaxLines
  /\ raw' = Append(raw, line)
  /\ UNCHANGED <<ui, appVars, watchers, lookups, diskVars, socketVars, emitLog,
                 commits, posted, servers, budget>>

\* ------------------------------------------------- GitWatcher, ipc/socket.ts

NewWatcher(p) ==
  [repoPath |-> p, watcher |-> "null", debounceTimer |-> "null",
   timers |-> 0, lastProcessedLine |-> NoLine, notifs |-> 0, reads |-> 0,
   handles |-> 0, stopped |-> FALSE, startLine |-> NoLine]

\* fs.readFileSync + last line; null when the file cannot be read
GetLastLine(p) == reflog[p]

StartWatcherAlways(w) ==
  [w EXCEPT !.lastProcessedLine = GetLastLine(w.repoPath),
            !.startLine = GetLastLine(w.repoPath),
            !.watcher = "open",
            !.handles = @ + 1]

StartWatcherNoInit(w) ==
  IF reflog[w.repoPath] = NoLine
  THEN w
  ELSE [w EXCEPT !.startLine = GetLastLine(w.repoPath),
                 !.watcher = "open",
                 !.handles = @ + 1]

\* start(): nothing when logs/HEAD does not exist; otherwise chokidar.watch
\* opens a handle on the file and this.watcher refers to it.  handles counts
\* the handles the instance has opened and not closed, startLine is the
\* final line of the file at this call.
StartWatcher(w) ==
  IF reflog[w.repoPath] = NoLine
  THEN w
  ELSE [w EXCEPT !.lastProcessedLine = GetLastLine(w.repoPath),
                 !.startLine = GetLastLine(w.repoPath),
                 !.watcher = "open",
                 !.handles = @ + 1]

\* clearTimeout(this.debounceTimer) cancels that timeout if it is pending
ClearTimeout(w) ==
  [w EXCEPT !.timers = IF w.debounceTimer = "pending" THEN @ - 1 ELSE @]

StopWatcherKeepsTimer(w) ==
  [w EXCEPT !.watcher = IF @ = "null" THEN "null" ELSE "closing",
            !.stopped = TRUE]

\* stop() up to its await: the timer is cleared and close() is called, which
\* removes chokidar's listeners at once (chokidar 3); this.watcher is set to
\* null when the close promise resolves.  stopped records that stop() has
\* been called on the instance.
StopWatcherSync(w) ==
  LET c == IF w.debounceTimer # "null"
           THEN [ClearTimeout(w) EXCEPT !.debounceTimer = "null"]
           ELSE w
  IN [c EXCEPT !.watcher = IF @ = "null" THEN "null" ELSE "closing",
               !.stopped = TRUE]

\* The promise of this.watcher.close() resolves: the handle this.watcher
\* referred to is closed, and stop() sets this.watcher = null.
CloseDone(w) == [w EXCEPT !.watcher = "null", !.handles = @ - 1]

HandleFileChangeNoClear(w) ==
  [w EXCEPT !.debounceTimer = "pending", !.timers = @ + 1]

\* handleFileChange: cancel the pending timer, start a new one
HandleFileChange(w) ==
  LET c == IF w.debounceTimer # "null" THEN ClearTimeout(w) ELSE w
  IN [c EXCEPT !.debounceTimer = "pending", !.timers = @ + 1]

WatcherEvent(type, hash, ref) ==
  <<[type |-> type, hash |-> hash, ref |-> ref]>>

\* String.prototype.toLowerCase on the branch names of the repositories
ToLowerCase(t) == IF t = "Dev" THEN "dev" ELSE t

\* parseLogLine: the event, or none (null) for a line it rejects.  The
\* pattern is matched against the lower-cased action text.
ParseLogLine(line) ==
  IF line.segs < 2 THEN <<>>
  ELSE IF line.hdr < 3 THEN <<>>
  ELSE IF line.c
       THEN IF line.m
            THEN WatcherEvent("merge", line.new, NULL)
            ELSE WatcherEvent("commit", line.new, NULL)
  ELSE IF line.k
       THEN WatcherEvent("checkout", line.new, ToLowerCase(line.to))
  ELSE IF line.m
       THEN WatcherEvent("merge", line.new, NULL)
  ELSE WatcherEvent("unknown", line.new, NULL)

\* A handle of the instance has its 'change' listener attached: every handle
\* it opened and did not close, but the one close() has been called on.
Listening(w) == w.handles - (IF w.watcher = "closing" THEN 1 ELSE 0) > 0

\* chokidar 'change' on a watcher whose listeners are attached.  notifs and
\* reads count the notifications of the current burst (one that started with
\* no timer pending) and the re-reads its timers caused.
FsChange(i) ==
  /\ Spend("fs")
  /\ i \in 1..Len(watchers)
  /\ Listening(watchers[i])
  /\ LET w == watchers[i]
         h == HandleFileChange(w)
     IN watchers' = [watchers EXCEPT ![i] =
          IF w.timers = 0
          THEN [h EXCEPT !.notifs = 1, !.reads = 0]
          ELSE [h EXCEPT !.notifs = @ + 1]]
  /\ UNCHANGED <<ui, raw, appVars, lookups, diskVars, socketVars, emitLog, commits,
                 posted, servers>>

\* The lookup the watcher's onEvent callback starts (index.ts, the callback
\* registered in loadRepository): this.gitService is read when it runs.
WatcherLookup(event) ==
  IF event.hash # NULL /\ gitService # NULL
  THEN <<[src |-> "watcher", svc |-> gitService, type |-> event.type,
          hash |-> event.hash, ref |-> event.ref, at |-> NextArrival]>>
  ELSE <<>>

\* The debounce timer fires: processFileChange, and the event callback up to
\* its await.
TimerFire(i) ==
  /\ i \in 1..Len(watchers)
  /\ watchers[i].timers > 0
  /\ LET w == watchers[i]
         t == [w EXCEPT !.timers = @ - 1,
                        !.debounceTimer = IF w.timers = 1 THEN "fired" ELSE @,
                        !.reads = @ + 1]
         lastLine == GetLastLine(w.repoPath)
     IN IF lastLine = NoLine \/ lastLine = w.lastProcessedLine
        THEN /\ watchers' = [watchers EXCEPT ![i] = t]
             /\ UNCHANGED lookups
        ELSE LET event == ParseLogLine(lastLine[1])
             IN /\ watchers' = [watchers EXCEPT
                                  ![i] = [t EXCEPT !.lastProcessedLine = lastLine]]
                /\ lookups' = IF event # <<>>
                              THEN lookups \o WatcherLookup(event[1])
                              ELSE lookups
  /\ UNCHANGED <<ui, raw, appVars, diskVars, socketVars, emitLog, commits, posted, servers,
                 budget>>

\* new GitWatcher(p), called on its own
Construct(p) ==
  /\ Spend("calls")
  /\ watchers = <<>>
  /\ watchers' = <<NewWatcher(p)>>
  /\ UNCHANGED <<ui, raw, appVars, lookups, diskVars, socketVars, emitLog, commits,
                 posted, servers>>

\* start() called on an instance, in whatever state it is, by a caller that
\* awaits the stop() it called before
StartCall(i) ==
  /\ Spend("calls")
  /\ i \in 1..Len(watchers)
  /\ watchers[i].watcher # "closing"
  /\ watchers' = [watchers EXCEPT ![i] = StartWatcher(@)]
  /\ UNCHANGED <<ui, raw, appVars, lookups, diskVars, socketVars, emitLog, commits,
                 posted, servers>>

\* stop() called on an instance, up to its await
StopCall(i) ==
  /\ Spend("calls")
  /\ i \in 1..Len(watchers)
  /\ watchers[i].watcher # "closing"
  /\ watchers' = [watchers EXCEPT ![i] = StopWatcherSync(@)]
  /\ UNCHANGED <<ui, raw, appVars, lookups, diskVars, socketVars, emitLog, commits,
                 posted, servers>>

\* the stop() called on its own resolves
StopCallDone(i) ==
  /\ i \in 1..Len(watchers)
  /\ watchers[i].watcher = "closing"
  /\ \A j \in 1..Len(loads) : ~ (loads[j].pc = "stop" /\ loads[j].w = i)
  /\ watchers' = [watchers EXCEPT ![i] = CloseDone(@)]
  /\ UNCHANGED <<ui, raw, appVars, lookups, diskVars, socketVars, emitLog, commits,
                 posted, servers, budget>>

\* --------------------------------------- GitFlowVisualizerApp, index.ts

\* GitWatcher.isWatching()
IsWatching(w) == w.watcher # "null"

\* The session a loadRepository run finds when it starts.
Session ==
  [path |-> currentRepoPath, service |-> gitService, watcher |-> gitWatcher,
   watching |-> gitWatcher # 0 /\ IsWatching(watchers[gitWatcher]),
   idle |-> loads = <<>>]

\* A suspended loadRepository run.  id tells the runs apart: the number of
\* load requests that were still to come when this one arrived.
Load(p, pc, w, pre) ==
  [path |-> p, pc |-> pc, w |-> w, pre |-> pre, id |-> budget.loads]

\* GitService.isGitRepo: the path holds a .git directory
IsGitRepo(p) == p \in Repos

\* The paths the renderer can ask to load: one the select-repo dialog
\* returned, which it validated, or an entry of the recent-repositories list,
\* which RepoPicker passes on as it is.
Selectable == {p \in Paths : IsGitRepo(p)} \cup Range(recentRepos)

MaxRecentRepos == 10

AddRecentRepoNoFilter(recent, p) ==
  LET unshifted == <<p>> \o recent
  IN SubSeq(unshifted, 1, IF Len(unshifted) < MaxRecentRepos
                          THEN Len(unshifted) ELSE MaxRecentRepos)

\* ConfigStore.addRecentRepo
AddRecentRepo(recent, p) ==
  LET filtered == SelectSeq(recent, LAMBDA q : q # p)
      unshifted == <<p>> \o filtered
  IN SubSeq(unshifted, 1, IF Len(unshifted) < MaxRecentRepos
                          THEN Len(unshifted) ELSE MaxRecentRepos)

\* path.normalize: "A/." is another spelling of "A"
Normalize(p) == IF p = "A/." THEN "A" ELSE p

\* loadRepository from the ipc request to its first await.  With a watcher
\* whose handle is open the run suspends in stop(); otherwise it goes on to
\* construct the GitService and suspends in getFullLog().
LoadRepositoryRun(p) ==
  /\ Spend("loads")
  /\ servers.pc = "done"
  /\ p \in Selectable
  /\ IF gitWatcher # 0 /\ watchers[gitWatcher].watcher # "null"
     THEN /\ watchers' = [watchers EXCEPT
                            ![gitWatcher] = StopWatcherSync(@)]
          /\ loads' = Append(loads, Load(p, "stop", gitWatcher, Session))
          /\ UNCHANGED <<currentRepoPath, gitService, gitWatcher>>
     ELSE /\ watchers' = IF gitWatcher # 0
                         THEN [watchers EXCEPT
                                 ![gitWatcher] = StopWatcherSync(@)]
                         ELSE watchers
          /\ gitWatcher' = 0
          /\ gitService' = p
          /\ currentRepoPath' = p
          /\ loads' = Append(loads, Load(p, "log", 0, Session))
  /\ UNCHANGED <<raw, lookups, lastLoad, recentRepos, lastRepoPath, diskVars, socketVars,
                 emitLog, commits, posted, servers>>

\* A load-repo request arrives: the ipc handler calls loadRepository.
LoadRepository(p) ==
  /\ LoadRepositoryRun(p)
  /\ UNCHANGED ui

\* A path was picked in RepoPicker, shown while repoPath is null:
\* handleRepoSelected sets loading and repoPath and invokes load-repo, and
\* the ipc handler runs loadRepository to its first await.  ipc is the
\* call the renderer awaits.
HandleRepoSelected(c, p) ==
  /\ ui[c].repoPath = NULL
  /\ ui[c].ipc = 0
  /\ ui' = [ui EXCEPT ![c].loading = TRUE, ![c].repoPath = p,
                      ![c].ipc = budget.loads]
  /\ LoadRepositoryRun(p)

\* The load-repo call returns to handleRepoSelected: with success it waits
\* for the baseline, with a failure it goes back to the picker.
LoadRepoReturns(c) ==
  /\ ui[c].ipc # 0
  /\ lastLoad.id = ui[c].ipc
  /\ \A i \in 1..Len(loads) : loads[i].id # ui[c].ipc
  /\ ui' = IF lastLoad.success
           THEN [ui EXCEPT ![c].ipc = 0]
           ELSE [ui EXCEPT ![c].ipc = 0, ![c].repoPath = NULL,
                           ![c].loading = FALSE]
  /\ UNCHANGED <<raw, appVars, watchers, lookups, diskVars, socketVars,
                 emitLog, commits, posted, servers, budget>>

\* The close promise resolves: stop() sets this.watcher = null, and
\* loadRepository goes on to its second await, getFullLog().
StopDone(i) ==
  /\ i \in 1..Len(loads)
  /\ loads[i].pc = "stop"
  /\ watchers' = [watchers EXCEPT ![loads[i].w] = CloseDone(@)]
  /\ gitWatcher' = 0
  /\ gitService' = loads[i].path
  /\ currentRepoPath' = loads[i].path
  /\ loads' = [loads EXCEPT ![i].pc = "log"]
  /\ UNCHANGED <<ui, raw, lookups, lastLoad, recentRepos, lastRepoPath, diskVars, socketVars,
                 emitLog, commits, posted, servers, budget>>

NeverRejected(ok) == FALSE

\* await this.gitService.getFullLog() throws: control goes to the catch
\* block of loadRepository, past every statement after the await.
Rejected(ok) == ~ ok

\* getFullLog() settles.  It can reject for any path (git missing, corrupted
\* repository) and always rejects for a directory that is no repository.
\* When it resolves the run emits the baseline, constructs and starts the
\* watcher, and stores the path with configStore.setLastRepoPath, which
\* also puts it first in the recent-repositories list.
LogDone(i, ok) ==
  /\ i \in 1..Len(loads)
  /\ loads[i].pc = "log"
  /\ ok => loads[i].path \in Repos
  /\ LET p == loads[i].path
     IN IF ~ Rejected(ok)
        THEN LET d1 == Emit(Dispatcher, InitialGraphMsg(p, GetFullLog(p)))
                 d2 == Emit(d1, ToastMsg("load", "success"))
             IN /\ watchers' = Append(watchers, StartWatcher(NewWatcher(p)))
                /\ gitWatcher' = Len(watchers) + 1
                /\ lastRepoPath' = p
                /\ recentRepos' = AddRecentRepo(recentRepos, p)
                /\ emitLog' = d2.log
                /\ commits' = d2.rc
                /\ ui' = Delivered(ui, d2.log[Len(d1.log)])
        ELSE UNCHANGED <<watchers, gitWatcher, recentRepos, lastRepoPath,
                         emitLog, commits, ui>>
  /\ lastLoad' = [path |-> loads[i].path, success |-> ok,
                  pre |-> loads[i].pre, id |-> loads[i].id]
  /\ loads' = RemoveAt(loads, i)
  /\ UNCHANGED <<raw, currentRepoPath, gitService, lookups, diskVars, socketVars,
                 posted, servers, budget>>

\* --------------------------------------------- HookServer, hookServer.ts

HookEvents == {"commit", "merge", "checkout", "push"}

\* The hashes a request can name: the commits of the repositories.
HookHashes == UNION {Range(history[p]) : p \in Repos}

HookLookup(event) ==
  <<[src |-> "hook", svc |-> gitService, type |-> event.event,
     hash |-> event.hash, ref |-> event.ref, at |-> NextArrival]>>

ForAnyRepo(event) == TRUE

\* handleHookEvent's filter: the event is for the current repository
ForCurrentRepo(event) ==
  ~ (/\ currentRepoPath # NULL
     /\ event.repo # currentRepoPath
     /\ Normalize(currentRepoPath) # Normalize(event.repo))

MissingFieldsRepoOnly(event) == event.repo = NULL

\* if (!event.repo || !event.event): a field that is absent is NULL
MissingFields(event) == event.repo = NULL \/ event.event = NULL

\* POST /event, and handleHookEvent up to its first await
HookPost(event) ==
  /\ Spend("posts")
  /\ servers.hook = "listening" /\ servers.pc = "done"
  /\ posted' = [event |-> event, n |-> posted.n + 1,
                status |-> IF MissingFields(event) THEN 400 ELSE 200]
  /\ IF MissingFields(event)
     THEN UNCHANGED <<lookups, emitLog, commits>>
     ELSE IF ~ ForCurrentRepo(event) \/ gitService = NULL
     THEN UNCHANGED <<lookups, emitLog, commits>>
     ELSE CASE event.event \in {"commit", "merge"} ->
                 /\ lookups' = IF event.hash # NULL
                               THEN lookups \o HookLookup(event)
                               ELSE lookups
                 /\ UNCHANGED <<emitLog, commits>>
            [] event.event = "checkout" ->
                 /\ lookups' = IF event.hash # NULL /\ event.ref # NULL
                               THEN lookups \o HookLookup(event)
                               ELSE lookups
                 /\ UNCHANGED <<emitLog, commits>>
            [] event.event = "push" ->
                 LET d1 == Emit(Dispatcher,
                                [GitEventMsg("hook", "push", NULL, NULL, NULL,
                                             event.remote, event.branch)
                                   EXCEPT !.at = NextArrival])
                     d2 == Emit(d1, ToastMsg("hook", "info"))
                 IN /\ emitLog' = d2.log
                    /\ commits' = d2.rc
                    /\ UNCHANGED lookups
            [] OTHER -> UNCHANGED <<lookups, emitLog, commits>>
  /\ UNCHANGED <<ui, raw, appVars, watchers, diskVars, socketVars, servers>>

HookRequests ==
  [repo : Paths \cup {"A/.", NULL}, event : HookEvents \cup {NULL},
   hash : HookHashes \cup {NULL}, ref : {"dev", NULL},
   remote : {"origin"}, branch : {"main"}]

EventKindAsIs(type) == type

\* The kind the watcher callback gives its ChangeEvent
EventKind(type) == IF type = "unknown" THEN "commit" ELSE type

\* getCommit() settles, and the handler that awaited it runs to its end.  It
\* rejects when the hash does not resolve in the repository of the service
\* it was called on, and can reject for any hash (git failing).
LookupDone(i, ok) ==
  /\ i \in 1..Len(lookups)
  /\ ok => CommitResolves(lookups[i].svc, lookups[i].hash)
  /\ LET l == lookups[i]
     IN IF ok
        THEN LET commit == GetCommit(l.hash)[1].id
                 msg ==
                   IF l.src = "watcher"
                   THEN GitEventMsg("watcher", EventKind(l.type),
                                    commit, l.ref, l.hash, NULL, NULL)
                   ELSE IF l.type = "checkout"
                   THEN GitEventMsg("hook", "checkout", commit, l.ref, l.hash,
                                    NULL, NULL)
                   ELSE GitEventMsg("hook", l.type, commit, NULL, NULL, NULL,
                                    NULL)
                 toast == IF l.src = "hook" /\ l.type # "checkout"
                          THEN "success" ELSE "info"
                 d1 == Emit(Dispatcher, [msg EXCEPT !.at = l.at])
                 d2 == Emit(d1, ToastMsg(l.src, toast))
             IN /\ emitLog' = d2.log
                /\ commits' = d2.rc
        ELSE IF l.src = "hook"
        THEN LET d1 == Emit(Dispatcher, ToastMsg("hook", "error"))
             IN /\ emitLog' = d1.log
                /\ commits' = d1.rc
        ELSE UNCHANGED <<emitLog, commits>>
  /\ lookups' = RemoveAt(lookups, i)
  /\ UNCHANGED <<ui, raw, appVars, watchers, diskVars, socketVars, posted, servers, budget>>

\* ------------------------------------- start-up, index.ts and the servers

Listeners == {"socket", "hook"}

\* The application is constructed and initialize() is about to call
\* startServers(): no listener started.  socket and hook are the states of
\* the two listeners, io, httpServer (SocketServer) and server (HookServer)
\* the fields that hold their server objects, stopped the listeners whose
\* last stop() has resolved with no start() since; pc is the start()
\* startServers comes to next.
NotStarted ==
  [socket |-> "idle", hook |-> "idle", pc |-> "socket", boxes |-> 0,
   io |-> "null", httpServer |-> "null", server |-> "null", stopped |-> {}]

\* Both listeners bound: initialize() has finished without an error.
Started ==
  [socket |-> "listening", hook |-> "listening", pc |-> "done", boxes |-> 0,
   io |-> "set", httpServer |-> "set", server |-> "set", stopped |-> {}]

\* start() of listener x, from the call to the listening callback (ok) or
\* the 'error' event (port in use): the server objects are created and
\* assigned before listen() is called.
StartListener(srv, x, ok) ==
  LET o == IF x = "socket"
           THEN [srv EXCEPT !.io = "set", !.httpServer = "set"]
           ELSE [srv EXCEPT !.server = "set"]
  IN [o EXCEPT ![x] = IF ok THEN "listening" ELSE "failed",
               !.stopped = @ \ {x}]

\* HookServer.isRunning(), SocketServer.isRunning()
IsRunning(srv, x) ==
  IF x = "hook" THEN srv.server # "null"
  ELSE srv.io # "null" /\ srv.httpServer # "null"

\* stop() of listener x up to close(): SocketServer sets io to null at once;
\* with a server object close() is called and the promise is pending, and
\* without one the promise resolves at once.
StopListener(srv, x) ==
  LET o == IF x = "socket" THEN [srv EXCEPT !.io = "null"] ELSE srv
      obj == IF x = "socket" THEN srv.httpServer ELSE srv.server
  IN IF obj # "null"
     THEN [o EXCEPT ![x] = "closing"]
     ELSE [o EXCEPT !.stopped = @ \cup {x}]

\* The callback of close(): the field is set to null and stop() resolves.
CloseListener(srv, x) ==
  LET o == IF x = "socket" THEN [srv EXCEPT !.httpServer = "null"]
           ELSE [srv EXCEPT !.server = "null"]
  IN [o EXCEPT ![x] = "closed", !.stopped = @ \cup {x}]

\* socketServer.start() is called and settles.  When it rejects (port in
\* use) the catch block of startServers shows the error box and
\* startServers returns.
SocketStartDone(ok) ==
  /\ servers.pc = "socket"
  /\ servers' = IF ok
                THEN [StartListener(servers, "socket", ok) EXCEPT !.pc = "hook"]
                ELSE [StartListener(servers, "socket", ok) EXCEPT
                        !.pc = "done", !.boxes = @ + 1]
  /\ UNCHANGED <<ui, raw, appVars, watchers, lookups, diskVars, socketVars, emitLog,
                 commits, posted, budget>>

\* hookServer.start() is called and settles.
HookStartDone(ok) ==
  /\ servers.pc = "hook"
  /\ servers' = IF ok
                THEN [StartListener(servers, "hook", ok) EXCEPT !.pc = "done"]
                ELSE [StartListener(servers, "hook", ok) EXCEPT
                        !.pc = "done", !.boxes = @ + 1]
  /\ UNCHANGED <<ui, raw, appVars, watchers, lookups, diskVars, socketVars, emitLog,
                 commits, posted, budget>>

\* start() called on a listener that is not started, on its own
ListenerStart(x, ok) ==
  /\ Spend("calls")
  /\ servers[x] \in {"idle", "closed"}
  /\ servers' = StartListener(servers, x, ok)
  /\ UNCHANGED <<ui, raw, appVars, watchers, lookups, diskVars, socketVars, emitLog,
                 commits, posted>>

\* stop() called on a listener, in whatever state it is
ListenerStop(x) ==
  /\ Spend("calls")
  /\ servers' = StopListener(servers, x)
  /\ UNCHANGED <<ui, raw, appVars, watchers, lookups, diskVars, socketVars, emitLog,
                 commits, posted>>

\* the server of listener x has closed
ListenerStopDone(x) ==
  /\ servers[x] = "closing"
  /\ servers' = CloseListener(servers, x)
  /\ UNCHANGED <<ui, raw, appVars, watchers, lookups, diskVars, socketVars, emitLog,
                 commits, posted, budget>>

\* ------------------------------------------------------- specification

NoLoad == [path |-> NULL, success |-> FALSE, id |-> 0,
           pre |-> [path |-> NULL, service |-> NULL, watcher |-> 0,
                    watching |-> FALSE, idle |-> TRUE]]

Budget(nl, na, np, nf, nc) ==
  [loads |-> nl, acts |-> na, posts |-> np, fs |-> nf, conn |-> nc]

\* The state after construction, with start-up at srv: no repository loaded,
\* no subscriber connected; both repositories hold one commit, and the
\* stored recent-repositories list names a directory that is a repository no
\* more.
InitAt(b, srv) ==
  /\ servers = srv
  /\ currentRepoPath = NULL
  /\ gitService = NULL
  /\ gitWatcher = 0
  /\ watchers = <<>>
  /\ loads = <<>>
  /\ lookups = <<>>
  /\ lastLoad = NoLoad
  /\ recentRepos = <<NoGitDir>>
  /\ lastRepoPath = NoGitDir
  /\ raw = <<>>
  /\ history = [p \in Paths |-> IF p \in Repos THEN <<Hash(p, 1)>> ELSE <<>>]
  /\ reflog = [p \in Paths |->
                 IF p \in Repos THEN <<LineOf("commit", 0, Hash(p, 1))>>
                 ELSE NoLine]
  /\ clientConnected = FALSE
  /\ sockets = {}
  /\ emitLog = <<>>
  /\ commits = [c \in Clients |-> <<>>]
  /\ ui = [c \in Clients |-> NewApp]
  /\ posted = [event |-> NULL, n |-> 0, status |-> 0]
  /\ budget = b

\* The state after a start-up in which both listeners were bound.
InitWith(b) == InitAt(b, Started)

\* What the application does by itself: promises settle, timers fire.
Internal ==
  \/ \E i \in 1..Len(watchers) : TimerFire(i)
  \/ \E i \in 1..Len(loads) : StopDone(i)
  \/ \E i \in 1..Len(loads), ok \in BOOLEAN : LogDone(i, ok)
  \/ \E i \in 1..Len(lookups), ok \in BOOLEAN : LookupDone(i, ok)

\* The session pipeline: repository loads and switches, commits made in the
\* repositories, both change-signal sources, one subscriber.
SessionRequests ==
  [repo : Repos, event : {"commit"}, hash : HookHashes, ref : {NULL},
   remote : {NULL}, branch : {NULL}]

Init == InitWith(Budget(MaxLoads, MaxGitActs, MaxPosts, MaxFsEvents, MaxConns))

Next ==
  \/ Connect("s1")
  \/ \E p \in Repos : GitAct(p, "commit")
  \/ \E i \in 1..Len(watchers) : FsChange(i)
  \/ \E p \in Paths : LoadRepository(p)
  \/ \E event \in SessionRequests : HookPost(event)
  \/ Internal

Spec == Init /\ [][Next]_vars

\* The log-tail watcher: bursts of change notifications on a watched
\* reference log, every kind of entry git appends, and a reload that stops
\* the watcher and starts the next one; no push channel, no subscriber.
\* Entries of each outcome of processFileChange: an event (commit, merge),
\* a line parseLogLine rejects, a file that cannot be read.
WatcherOps == {"commit", "merge", "noreason", "rmlog"}

InitWatcher == InitWith(Budget(WatcherLoads, WatcherGitActs, 0, WatcherFsEvents, 0))

NextWatcher ==
  \/ LoadRepository("A")
  \/ \E op \in WatcherOps : GitAct("A", op)
  \/ \E i \in 1..Len(watchers) : FsChange(i)
  \/ \E i \in 1..Len(watchers) : TimerFire(i)
  \/ \E i \in 1..Len(loads) : StopDone(i)
  \/ \E i \in 1..Len(loads) : LogDone(i, TRUE)
  \/ \E i \in 1..Len(lookups), ok \in BOOLEAN : LookupDone(i, ok)

SpecWatcher == InitWatcher /\ [][NextWatcher]_vars

\* The GitWatcher class on its own: one instance, constructed and then
\* started and stopped in any order, over a reference log that changes.
UnitBudget(n, na, nf) ==
  [loads |-> 0, acts |-> na, posts |-> 0, fs |-> nf, conn |-> 0, calls |-> n]

InitWatcherUnit == InitWith(UnitBudget(UnitCalls, UnitGitActs, UnitFsEvents))

NextWatcherUnit ==
  \/ Construct("A")
  \/ \E i \in 1..Len(watchers) : StartCall(i)
  \/ \E i \in 1..Len(watchers) : StopCall(i)
  \/ \E i \in 1..Len(watchers) : StopCallDone(i)
  \/ \E op \in GitOps : GitAct("A", op)
  \/ \E i \in 1..Len(watchers) : FsChange(i)
  \/ \E i \in 1..Len(watchers) : TimerFire(i)

SpecWatcherUnit == InitWatcherUnit /\ [][NextWatcherUnit]_vars

\* The dispatcher: two subscribers that connect and disconnect while one
\* repository is loaded and the push channel reports commits and pushes.
DispatchRequests ==
  [repo : {"A"}, event : {"commit", "push"}, hash : {Hash("A", 1)},
   ref : {NULL}, remote : {"origin"}, branch : {"main"}]

InitDispatch == InitWith(Budget(DispatchLoads, 0, DispatchPosts, 0, DispatchConns))

NextDispatch ==
  \/ \E c \in Clients : Connect(c)
  \/ \E c \in Clients : Disconnect(c)
  \/ LoadRepository("A")
  \/ \E i \in 1..Len(loads) : LogDone(i, TRUE)
  \/ \E event \in DispatchRequests : HookPost(event)
  \/ \E i \in 1..Len(lookups), ok \in BOOLEAN : LookupDone(i, ok)

SpecDispatch == InitDispatch /\ [][NextDispatch]_vars

\* Repository loading: loads of repositories and of a directory that is none,
\* each able to fail in the baseline read, with commits made meanwhile and
\* one subscriber.
InitLoad == InitWith(Budget(LoadLoads, LoadGitActs, 0, 0, LoadConns))

NextLoad ==
  \/ Connect("s1")
  \/ \E p \in Repos : GitAct(p, "commit")
  \/ \E p \in Paths : LoadRepository(p)
  \/ \E i \in 1..Len(loads) : StopDone(i)
  \/ \E i \in 1..Len(loads), ok \in BOOLEAN : LogDone(i, ok)

SpecLoad == InitLoad /\ [][NextLoad]_vars

\* The push channel: requests with and without their required fields, for
\* the loaded repository and for another one, before and after a load.
ContractRequests ==
  [repo : {"A", "B", NULL}, event : {"commit", "push", NULL},
   hash : {Hash("A", 1), NULL}, ref : {NULL}, remote : {"origin"},
   branch : {"main"}]

InitHook == InitWith(Budget(HookLoads, 0, HookPosts, 0, HookConns))

NextHook ==
  \/ Connect("s1")
  \/ LoadRepository("A")
  \/ \E i \in 1..Len(loads) : LogDone(i, TRUE)
  \/ \E event \in ContractRequests : HookPost(event)
  \/ \E i \in 1..Len(lookups), ok \in BOOLEAN : LookupDone(i, ok)

SpecHook == InitHook /\ [][NextHook]_vars

\* Checkouts reported on the push channel: with and without a hash and a
\* ref, for the loaded repository and for another one.
CheckoutRequests ==
  [repo : {"A", "B"}, event : {"checkout"}, hash : {Hash("A", 1), NULL},
   ref : {"dev", NULL}, remote : {NULL}, branch : {NULL}]

InitCheckout == InitWith(Budget(1, 0, CheckoutPosts, 0, 1))

NextCheckout ==
  \/ Connect("s1")
  \/ LoadRepository("A")
  \/ \E i \in 1..Len(loads) : LogDone(i, TRUE)
  \/ \E event \in CheckoutRequests : HookPost(event)
  \/ \E i \in 1..Len(lookups), ok \in BOOLEAN : LookupDone(i, ok)

SpecCheckout == InitCheckout /\ [][NextCheckout]_vars

\* The parsers of GitService on their own: every output of up to MaxLines
\* lines, well-formed, blank and cut short.
InitParse == InitWith(Budget(0, 0, 0, 0, 0))

NextParse == \E line \in PrintedLines : GitPrints(line)

SpecParse == InitParse /\ [][NextParse]_vars

\* The two listeners on their own: started with their port free or in use
\* and stopped, in any order and any number of times.
InitListener == InitAt(UnitBudget(ListenerCalls, 0, 0), NotStarted)

NextListener ==
  \/ \E x \in Listeners, ok \in BOOLEAN : ListenerStart(x, ok)
  \/ \E x \in Listeners : ListenerStop(x)
  \/ \E x \in Listeners : ListenerStopDone(x)

SpecListener == InitListener /\ [][NextListener]_vars

\* Entries the log-tail channel cannot classify: one repository loaded, one
\* subscriber, and git writing entries with and without a known action and
\* one without a hash; every lookup settles as git show does for its hash.
UnknownOps == {"commit", "reset", "nohash"}

InitUnknown == InitWith(Budget(1, UnknownGitActs, 0, UnknownFsEvents, 1))

NextUnknown ==
  \/ Connect("s1")
  \/ LoadRepository("A")
  \/ \E i \in 1..Len(loads) : LogDone(i, TRUE)
  \/ \E op \in UnknownOps : GitAct("A", op)
  \/ \E i \in 1..Len(watchers) : FsChange(i)
  \/ \E i \in 1..Len(watchers) : TimerFire(i)
  \/ \E i \in 1..Len(lookups) :
       LookupDone(i, CommitResolves(lookups[i].svc, lookups[i].hash))

SpecUnknown == InitUnknown /\ [][NextUnknown]_vars

\* Live detection: one repository loaded, one subscriber, and both channels
\* reporting what git does there, with lookups that fail, lines that do not
\* parse and a reference log that cannot be read.
LiveRequests ==
  [repo : {"A"}, event : {"commit"}, hash : Range(history["A"]),
   ref : {NULL}, remote : {NULL}, branch : {NULL}]

\* What git does there: a commit, the start of a rebase, an entry without
\* an action part, the reference log made unreadable.
LiveOps == {"commit", "rebase", "noreason", "rmlog"}

InitLive == InitWith(Budget(1, LiveGitActs, LivePosts, LiveFsEvents, 1))

NextLive ==
  \/ Connect("s1")
  \/ LoadRepository("A")
  \/ \E i \in 1..Len(loads) : LogDone(i, TRUE)
  \/ \E op \in LiveOps : GitAct("A", op)
  \/ \E i \in 1..Len(watchers) : FsChange(i)
  \/ \E i \in 1..Len(watchers) : TimerFire(i)
  \/ \E event \in LiveRequests : HookPost(event)
  \/ \E i \in 1..Len(lookups), ok \in BOOLEAN : LookupDone(i, ok)

SpecLive == InitLive /\ [][NextLive]_vars

\* Start-up: each listener binds or finds its port in use; afterwards a
\* repository is loaded and both channels report a commit.
InitStartup == InitAt(Budget(1, 1, 1, 1, 1), NotStarted)

NextStartup ==
  \/ \E ok \in BOOLEAN : SocketStartDone(ok)
  \/ \E ok \in BOOLEAN : HookStartDone(ok)
  \/ Connect("s1")
  \/ LoadRepository("A")
  \/ \E i \in 1..Len(loads) : LogDone(i, TRUE)
  \/ GitAct("A", "commit")
  \/ \E i \in 1..Len(watchers) : FsChange(i)
  \/ \E i \in 1..Len(watchers) : TimerFire(i)
  \/ \E event \in LiveRequests : HookPost(event)
  \/ \E i \in 1..Len(lookups), ok \in BOOLEAN : LookupDone(i, ok)

SpecStartup == InitStartup /\ [][NextStartup]_vars

\* ----------------------------------------------------------- the claims

\* The repository a commit belongs to.
RepoOfHash(h) == CHOOSE p \in Repos : \E k \in 1..Len(HashNames[p]) : h = Hash(p, k)

\* Entry k of the log is a ChangeEvent that went out to subscribers.
Dispatched(k) == emitLog[k].ev = "git_event" /\ emitLog[k].to # {}

CommitEvent(k) ==
  /\ emitLog[k].ev = "git_event"
  /\ emitLog[k].type \in {"commit", "merge"}
  /\ emitLog[k].commit # NULL

\* No baseline was emitted between entries j and k: one session.
SameSession(j, k) ==
  \A i \in j..k : emitLog[i].ev # "initial_graph"

\* The last baseline emitted before entry k, 0 when there is none.
BaselineBefore(k) ==
  LET bs == {i \in 1..(k - 1) : emitLog[i].ev = "initial_graph"}
  IN IF bs = {} THEN 0 ELSE CHOOSE i \in bs : \A j \in bs : j <= i

\* The commit ids the session knows when entry k is emitted: those of its
\* baseline and those of the ChangeEvents dispatched since.
KnownBefore(k) ==
  LET b == BaselineBefore(k)
  IN (IF b = 0 THEN {} ELSE Range(emitLog[b].commits))
     \cup {emitLog[i].commit : i \in {i \in (b + 1)..(k - 1) : Dispatched(i)}}

\* C1: when the push channel and the log-tail channel each resolve a signal
\* to the same commit id in one session, with a subscriber connected, exactly
\* one ChangeEvent for that id is dispatched.
C1_ExactlyOneChangeEvent ==
  \A j, k \in 1..Len(emitLog) :
    (/\ j < k
     /\ CommitEvent(j) /\ CommitEvent(k)
     /\ emitLog[j].commit = emitLog[k].commit
     /\ emitLog[j].src # emitLog[k].src
     /\ SameSession(j, k)
     /\ emitLog[j].conn # {} /\ emitLog[k].conn # {})
    => (Dispatched(j) /\ ~ Dispatched(k)) \/ (~ Dispatched(j) /\ Dispatched(k))

\* C2: once the repository has been switched, a signal of the repository
\* that was left dispatches no ChangeEvent and does not change a commit list:
\* a ChangeEvent that is dispatched carries a commit of the current
\* repository, and adds no commit of another one to a commit list.
C2_SessionIsolation ==
  [][ \A k \in (Len(emitLog) + 1)..Len(emitLog') :
        (emitLog'[k].ev = "git_event" /\ emitLog'[k].commit # NULL
           /\ emitLog'[k].to # {})
        => /\ RepoOfHash(emitLog'[k].commit) = currentRepoPath
           /\ \A c \in Clients :
                \A h \in Range(commits'[c]) \ Range(commits[c]) :
                  RepoOfHash(h) = currentRepoPath ]_vars

\* C3: a commit or merge signal whose commit id the session already knows
\* (it is in the baseline, or a ChangeEvent for it was dispatched) produces
\* no ChangeEvent.
C3_AtMostOncePerCommit ==
  \A k \in 1..Len(emitLog) :
    (CommitEvent(k) /\ Dispatched(k)) => emitLog[k].commit \notin KnownBefore(k)

\* C4: the old watcher is stopped, its timer cancelled, before the watcher of
\* the new path is started: no two watchers are Watching at once, and beside
\* a Watching watcher no other watcher has a timer pending.
C4_OneWatcherAtATime ==
  \A i, j \in 1..Len(watchers) :
    (i # j /\ IsWatching(watchers[i]))
    => ~ IsWatching(watchers[j]) /\ watchers[j].timers = 0

\* C5: after a loadRepository that failed while a session was active (a
\* repository loaded, no other load running), and with no load request since,
\* the current repository path, the repository reader and the watcher are
\* those of that session, the watcher Watching as it was.
C5_FailedLoadKeepsSession ==
  (/\ lastLoad.path # NULL
   /\ ~ lastLoad.success
   /\ lastLoad.pre.watcher # 0
   /\ lastLoad.pre.idle
   /\ budget.loads = lastLoad.id - 1)
  => /\ currentRepoPath = lastLoad.pre.path
     /\ gitService = lastLoad.pre.service
     /\ gitWatcher = lastLoad.pre.watcher
     /\ lastLoad.pre.watching => watchers[gitWatcher].watcher = "open"

\* C8: a load request for a path that fails validation returns a failure and
\* creates no session state for the path: neither the current repository
\* path nor the repository reader nor a watcher is ever set to it.
C8_NoSessionForInvalidPath ==
  /\ currentRepoPath # NULL => IsGitRepo(currentRepoPath)
  /\ gitService # NULL => IsGitRepo(gitService)
  /\ \A i \in 1..Len(watchers) : IsGitRepo(watchers[i].repoPath)
  /\ (lastLoad.path # NULL /\ ~ IsGitRepo(lastLoad.path)) => ~ lastLoad.success

\* C6: in a burst of change notifications, each arriving while the timer
\* the previous one started is pending, the reference log is re-read at most
\* once, and a watcher never has more than one timer pending.
C6_DebounceCoalescing ==
  \A i \in 1..Len(watchers) :
    watchers[i].timers <= 1 /\ watchers[i].reads <= 1

\* A burst of at least two notifications has been answered by its one re-read.
C6_Witness ==
  \E i \in 1..Len(watchers) :
    /\ watchers[i].notifs >= 2
    /\ watchers[i].reads = 1
    /\ watchers[i].timers = 0

\* The change deliveries a subscriber can get.
Deliveries ==
  {GitEventMsg(src, "commit", h, NULL, NULL, NULL, NULL) :
     src \in {"hook", "watcher"}, h \in HookHashes \cup {NULL}}

\* C7: on every commit sequence a subscriber holds, a change delivery whose
\* commit id is in the sequence leaves it as it is, and a delivery applied
\* twice gives what it gives applied once.
C7_IdempotentAppend ==
  \A c \in Clients : \A d \in Deliveries :
    LET cs == commits[c]
        once == HandleGitEvent(cs, d)
    IN /\ (d.commit # NULL /\ d.commit \in Ids(cs)) => once = cs
       /\ HandleGitEvent(once, d) = once

\* A subscriber got a change delivery for a commit that an earlier delivery
\* (baseline or change) had already put into its sequence, and holds it once.
C7_Witness ==
  \E c \in Clients : \E j, k \in 1..Len(emitLog) :
    /\ j < k
    /\ c \in emitLog[j].to /\ c \in emitLog[k].to
    /\ emitLog[k].ev = "git_event" /\ emitLog[k].commit # NULL
    /\ \/ emitLog[j].ev = "initial_graph"
             /\ emitLog[k].commit \in Range(emitLog[j].commits)
       \/ emitLog[j].ev = "git_event"
             /\ emitLog[j].commit = emitLog[k].commit
    /\ Cardinality({i \in 1..Len(commits[c]) :
                      commits[c][i] = emitLog[k].commit}) = 1

\* C9: an emission made while at least one subscriber is connected goes to
\* every connected subscriber.
C9_FanOutToAllConnected ==
  \A k \in 1..Len(emitLog) :
    emitLog[k].conn # {} => emitLog[k].to = emitLog[k].conn

\* What subscriber c holds if it handled exactly the first n emissions that
\* were made while it was connected.
RECURSIVE View(_, _)
View(c, n) ==
  IF n = 0 THEN <<>>
  ELSE IF c \in emitLog[n].conn /\ emitLog[n].to # {}
       THEN OnSocketEvent(View(c, n - 1), emitLog[n])
       ELSE View(c, n - 1)

\* C10: an emission made with no subscriber connected goes to nobody, an
\* emission goes to no subscriber that was not connected when it was made,
\* and what a subscriber holds comes from the emissions made while it was
\* connected alone.
C10_NoReplay ==
  /\ \A k \in 1..Len(emitLog) : emitLog[k].to \subseteq emitLog[k].conn
  /\ \A c \in Clients : commits[c] = View(c, Len(emitLog))

\* A subscriber is connected that was not when a baseline went out to
\* another one, and it holds nothing of it.
C10_Witness ==
  \E c \in sockets : \E k \in 1..Len(emitLog) :
    /\ emitLog[k].ev = "initial_graph"
    /\ emitLog[k].to # {}
    /\ c \notin emitLog[k].conn
    /\ commits[c] = <<>>

\* C11: of two ChangeEvents dispatched for signals of one source, the one
\* for the signal that arrived first is dispatched first.
C11_PerSourceArrivalOrder ==
  \A j, k \in 1..Len(emitLog) :
    (/\ j < k
     /\ Dispatched(j) /\ Dispatched(k)
     /\ emitLog[j].src = emitLog[k].src)
    => emitLog[j].at < emitLog[k].at

\* The baselines emitted in the step.
NewBaselines ==
  {k \in (Len(emitLog) + 1)..Len(emitLog') : emitLog'[k].ev = "initial_graph"}

\* C12: the step in which a loadRepository run gets its baseline emits one
\* baseline, the path of the run with the commit sequence read; no other
\* step (the start of a run, a failed baseline read) emits a baseline.
C12_BaselineOncePerLoad ==
  [][ IF Len(loads') < Len(loads) /\ lastLoad'.success
      THEN /\ Cardinality(NewBaselines) = 1
           /\ \A k \in NewBaselines :
                /\ emitLog'[k].repoPath = lastLoad'.path
                /\ emitLog'[k].commits = GetFullLog(lastLoad'.path)
      ELSE NewBaselines = {} ]_vars

\* A load succeeded after a commit was made, and its baseline of two commits
\* has been emitted.
C12_Witness ==
  /\ lastLoad.success
  /\ \E k \in 1..Len(emitLog) :
       /\ emitLog[k].ev = "initial_graph"
       /\ emitLog[k].repoPath = lastLoad.path
       /\ Len(emitLog[k].commits) = 2

\* The ChangeEvents emitted in the step.
NewGitEvents ==
  {k \in (Len(emitLog) + 1)..Len(emitLog') : emitLog'[k].ev = "git_event"}

\* C13: a POST /event request without repo or without event is answered 400
\* and starts nothing: no lookup, no emission.  A request with both is
\* answered 200 and its handler has run once, within the request: for the
\* current repository with a reader, a commit request that names a hash has
\* started its one lookup, a push request has emitted its one ChangeEvent.
C13_HookRequestContract ==
  [][ posted'.n # posted.n =>
      LET e == posted'.event
          started == (Len(lookups') - Len(lookups)) + Cardinality(NewGitEvents)
      IN IF e.repo = NULL \/ e.event = NULL
         THEN /\ posted'.status = 400
              /\ lookups' = lookups /\ emitLog' = emitLog /\ commits' = commits
         ELSE /\ posted'.status = 200
              /\ started <= 1
              /\ (ForCurrentRepo(e) /\ gitService # NULL
                    /\ (e.event = "push" \/ e.hash # NULL))
                 => /\ started = 1
                    /\ e.event = "commit" =>
                         lookups'[Len(lookups')].hash = e.hash
                    /\ e.event = "push" =>
                         \A k \in NewGitEvents : emitLog'[k].type = "push" ]_vars

\* A request with both fields has started its lookup, and the request after
\* it, which lacks one, was answered 400.
C13_Witness ==
  /\ posted.n = 2
  /\ posted.status = 400
  /\ Len(lookups) = 1

\* The classification of a reference-log line as the specification words it.
ClassifiedAsSpecified(line) ==
  IF line.c /\ line.m THEN WatcherEvent("merge", line.new, NULL)
  ELSE IF line.c THEN WatcherEvent("commit", line.new, NULL)
  ELSE IF line.k THEN WatcherEvent("checkout", line.new, line.to)
  ELSE WatcherEvent("unknown", line.new, NULL)

\* C14: for every reference-log line with an action part, parseLogLine gives
\* the second header token as hash and the kind merge for "commit" with
\* "merge", commit for "commit" alone, checkout for "checkout" with the
\* destination ref as the line spells it, unknown in every other case.
C14_ParseLogLine ==
  \A p \in Repos :
    (reflog[p] # NoLine /\ reflog[p][1].segs >= 2)
    => ParseLogLine(reflog[p][1]) = ClassifiedAsSpecified(reflog[p][1])

\* The step is a run of processFileChange on watcher i.
Processed(i) ==
  i <= Len(watchers') /\ watchers'[i].reads = watchers[i].reads + 1

\* C15: processing a last line that has fewer than two tab-separated
\* segments starts no event handler and leaves lastProcessedLine as it was.
C15_MalformedLineSkipped ==
  [][ \A i \in 1..Len(watchers) :
        LET lastLine == GetLastLine(watchers[i].repoPath)
        IN (Processed(i) /\ lastLine # NoLine /\ lastLine[1].segs < 2)
           => /\ lookups' = lookups
              /\ watchers'[i].lastProcessedLine = watchers[i].lastProcessedLine
    ]_vars

\* The step settles lookup i of a commit or merge signal as failed.
CommitLookupFailed(i) ==
  /\ lookups' = RemoveAt(lookups, i)
  /\ lookups[i].type \in {"commit", "merge"}
  /\ NewGitEvents = {}

\* C16: when the lookup of a commit or merge signal fails, on either
\* channel, nothing is emitted: no ChangeEvent and no toast.
C16_CommitNotFoundSilent ==
  [][ \A i \in 1..Len(lookups) :
        CommitLookupFailed(i) => emitLog' = emitLog ]_vars

\* The step is the processing of a signal that fails: a lookup that settles
\* without a ChangeEvent, or a run of processFileChange on a reference log
\* that cannot be read or whose last line has no action part.
ProcessingFails ==
  \/ Len(lookups') < Len(lookups) /\ NewGitEvents = {}
  \/ \E i \in 1..Len(watchers) :
       LET lastLine == GetLastLine(watchers[i].repoPath)
       IN Processed(i) /\ (lastLine = NoLine \/ lastLine[1].segs < 2)

C18_BoundedBaseline ==
  \A p \in Repos :
    LET log == Reverse(history[p])
    IN /\ \A L \in 0..MaxLimit :
            LET r == GetFullLogWith(p, L)
            IN /\ Len(r) = Min(Len(log), L)
               /\ \A i \in 1..Len(r) :
                    /\ r[i].id = log[i]
                    /\ r[i].id # "" /\ r[i].author # "" /\ r[i].date # ""
       /\ GetFullLog(p) = log

\* A repository holds two commits, more than the limit 1, and a baseline of
\* all of them has been loaded and emitted.
C18_Witness ==
  \E p \in Repos :
    /\ Len(history[p]) >= 2
    /\ \E k \in 1..Len(emitLog) :
         /\ emitLog[k].ev = "initial_graph"
         /\ emitLog[k].repoPath = p
         /\ Len(emitLog[k].commits) = Len(history[p])

\* C19: when start-up is over and a listener has failed to bind, the other
\* listener is started and the user has been told once.
C19_DegradedStartup ==
  (servers.pc = "done" /\ "failed" \in {servers.socket, servers.hook})
  => /\ servers.socket = "failed" => servers.hook = "listening"
     /\ servers.hook = "failed" => servers.socket = "listening"
     /\ servers.boxes = 1

\* A loadRepository run for the current repository is waiting for its
\* baseline: the baseline of this selection has not been emitted.
BaselinePending ==
  \E i \in 1..Len(loads) :
    loads[i].pc = "log" /\ loads[i].path = currentRepoPath

\* C20: while the baseline of the selected repository has not been emitted,
\* no ChangeEvent for that repository is dispatched to subscribers.
C20_BaselinePrecedesChanges ==
  [][ \A k \in NewGitEvents :
        (/\ emitLog'[k].to # {}
         /\ emitLog'[k].commit # NULL =>
              RepoOfHash(emitLog'[k].commit) = currentRepoPath)
        => ~ BaselinePending ]_vars

\* The step is a run of processFileChange on watcher i that invokes the
\* event callback: it takes a new last line, which parseLogLine accepts.
CallbackRuns(i) ==
  /\ Processed(i)
  /\ watchers'[i].lastProcessedLine # watchers[i].lastProcessedLine
  /\ ParseLogLine(watchers'[i].lastProcessedLine[1]) # <<>>

\* C21: once stop() has been called on a watcher, the watcher does not invoke
\* its event callback again and has no debounce timer pending, while its
\* handle is closing and after stop() has resolved.
C21_StopIsFinal ==
  [][ \A i \in 1..Len(watchers) :
        watchers[i].stopped =>
          /\ ~ CallbackRuns(i)
          /\ watchers'[i].timers = 0
          /\ watchers'[i].debounceTimer = "null" ]_vars

\* stop() has resolved on a watcher that had a debounce timer pending when
\* it was called: a burst of notifications started and its timer never ran,
\* while the last line of the reference log is one it has not processed.
C21_Witness ==
  \E i \in 1..Len(watchers) :
    /\ watchers[i].stopped /\ watchers[i].watcher = "null"
    /\ watchers[i].notifs > 0 /\ watchers[i].reads = 0
    /\ GetLastLine(watchers[i].repoPath) # watchers[i].lastProcessedLine
    /\ GetLastLine(watchers[i].repoPath) # NoLine

\* C22: a watcher instance holds at most one filesystem watch handle, a
\* start() on an instance that is Watching opens none, and an instance that
\* is Stopped (isWatching() false) holds no handle.
C22_WatcherStateMachine ==
  \A i \in 1..Len(watchers) :
    /\ watchers[i].handles <= 1
    /\ ~ IsWatching(watchers[i]) => watchers[i].handles = 0

\* C23: a run of processFileChange that finds the final line of the
\* reference log unreadable, equal to lastProcessedLine, or equal to the
\* final line present when the watcher started invokes no event callback,
\* starts no lookup and leaves lastProcessedLine as it was.
C23_UnchangedLineNoOp ==
  [][ \A i \in 1..Len(watchers) :
        LET lastLine == GetLastLine(watchers[i].repoPath)
        IN (/\ Processed(i)
            /\ \/ lastLine = NoLine
               \/ lastLine = watchers[i].lastProcessedLine
               \/ lastLine = watchers[i].startLine)
           => /\ ~ CallbackRuns(i)
              /\ watchers'[i].lastProcessedLine = watchers[i].lastProcessedLine
              /\ lookups' = lookups ]_vars

\* The debounce timer of a watcher has fired while the final line was still
\* the one present at its start: the line was re-read and no callback ran.
C23_Witness ==
  \E i \in 1..Len(watchers) :
    /\ watchers[i].reads > 0
    /\ GetLastLine(watchers[i].repoPath) # NoLine
    /\ watchers[i].startLine = GetLastLine(watchers[i].repoPath)
    /\ watchers[i].lastProcessedLine = watchers[i].startLine

\* C24: when a loadRepository run has read its baseline and the reference
\* log of the repository does not exist, the run emits the baseline and
\* returns success, and the watcher it constructed and started is Stopped:
\* isWatching() is false and it holds no handle.
C24_MissingLogInert ==
  [][ \A i \in 1..Len(loads) :
        (/\ loads[i].pc = "log" /\ loads' = RemoveAt(loads, i)
         /\ lastLoad'.id = loads[i].id
         /\ Len(watchers') = Len(watchers) + 1
         /\ reflog[loads[i].path] = NoLine)
        => /\ lastLoad'.success
           /\ \E k \in NewBaselines : emitLog'[k].repoPath = loads[i].path
           /\ gitWatcher' = Len(watchers')
           /\ ~ IsWatching(watchers'[gitWatcher'])
           /\ watchers'[gitWatcher'].handles = 0 ]_vars

\* A load has succeeded for a repository without a reference log: its
\* baseline was emitted and its watcher, never stopped, is not watching.
C24_Witness ==
  /\ lastLoad.success /\ reflog[lastLoad.path] = NoLine
  /\ gitWatcher # 0
  /\ watchers[gitWatcher].repoPath = lastLoad.path
  /\ ~ IsWatching(watchers[gitWatcher]) /\ ~ watchers[gitWatcher].stopped
  /\ \E k \in 1..Len(emitLog) :
       emitLog[k].ev = "initial_graph" /\ emitLog[k].repoPath = lastLoad.path

\* C25: every ChangeEvent that went out to subscribers has one of the four
\* kinds and the payload of its kind: a commit or merge event carries a
\* commit and no ref, remote or branch; a checkout event carries a ref; a
\* push event carries remote and branch and no commit.
C25_PayloadShape ==
  \A k \in 1..Len(emitLog) :
    Dispatched(k) =>
      LET e == emitLog[k]
      IN /\ e.type \in {"commit", "merge", "checkout", "push"}
         /\ e.type \in {"commit", "merge"} =>
              /\ e.commit # NULL
              /\ e.ref = NULL /\ e.remote = NULL /\ e.branch = NULL
         /\ e.type = "checkout" => e.ref # NULL
         /\ e.type = "push" =>
              e.remote # NULL /\ e.branch # NULL /\ e.commit = NULL

\* The checkout ChangeEvents with ref r emitted in the step.
NewCheckouts(r) ==
  {k \in NewGitEvents : emitLog'[k].type = "checkout" /\ emitLog'[k].ref = r}

\* C26: a push-channel checkout signal for the current repository that
\* carries a ref and no hash emits one checkout ChangeEvent with that ref
\* within the request and starts no lookup; one that carries a hash starts
\* its one lookup, and one checkout ChangeEvent with the ref is emitted when
\* that lookup settles.
C26_CheckoutNeedsNoLookup ==
  [][ /\ (/\ posted'.n # posted.n
          /\ posted'.event.event = "checkout" /\ posted'.event.ref # NULL
          /\ posted'.event.repo # NULL
          /\ ForCurrentRepo(posted'.event) /\ gitService # NULL)
         => IF posted'.event.hash = NULL
            THEN /\ Cardinality(NewCheckouts(posted'.event.ref)) = 1
                 /\ lookups' = lookups
            ELSE Len(lookups') = Len(lookups) + 1
      /\ \A i \in 1..Len(lookups) :
           (/\ lookups' = RemoveAt(lookups, i)
            /\ lookups[i].src = "hook" /\ lookups[i].type = "checkout")
           => Cardinality(NewCheckouts(lookups[i].ref)) = 1 ]_vars

\* C27: the step in which the baseline read of a loadRepository run fails
\* and the run returns {success: false} emits no baseline, constructs and
\* starts no watcher, and leaves the stored last repository path and the
\* recent-repositories list as they were.
C27_FailedBaselineAbortsLoad ==
  [][ (Len(loads') < Len(loads) /\ ~ lastLoad'.success)
      => /\ NewBaselines = {}
         /\ watchers' = watchers /\ gitWatcher' = gitWatcher
         /\ lastRepoPath' = lastRepoPath /\ recentRepos' = recentRepos ]_vars

\* The load of a repository has failed in its baseline read: the session
\* names the repository, the stored configuration does not, no baseline of
\* it was emitted and there is no watcher.
C27_Witness ==
  /\ lastLoad.id # 0 /\ ~ lastLoad.success /\ lastLoad.path \in Repos
  /\ loads = <<>>
  /\ currentRepoPath = lastLoad.path
  /\ lastRepoPath # lastLoad.path /\ lastLoad.path \notin Range(recentRepos)
  /\ gitWatcher = 0
  /\ \A k \in 1..Len(emitLog) :
       emitLog[k].ev = "initial_graph" => emitLog[k].repoPath # lastLoad.path

\* C28: of any log output getFullLog returns the records of the lines that
\* have the 7 requested fields, in the order of the output, and omits every
\* line that has fewer.
C28_MalformedRecordsSkipped ==
  LET kept == SelectSeq(raw, LAMBDA line : Len(line) >= 7)
      r == ParseRecords(raw)
  IN /\ Len(r) = Len(kept)
     /\ \A j \in 1..Len(r) : r[j].id = kept[j][1]

C30_ListenerLifecycle ==
  \A x \in Listeners :
    /\ x \in servers.stopped => ~ IsRunning(servers, x)
    /\ IsRunning(servers, x) => servers[x] \in {"listening", "closing"}

C32_UnknownBecomesCommit ==
  [][ /\ \A i \in 1..Len(lookups) :
           (/\ lookups' = RemoveAt(lookups, i)
            /\ lookups[i].src = "watcher" /\ lookups[i].type = "unknown"
            /\ CommitResolves(lookups[i].svc, lookups[i].hash))
           => /\ Cardinality(NewGitEvents) = 1
              /\ \A k \in NewGitEvents :
                   /\ emitLog'[k].type = "commit"
                   /\ emitLog'[k].commit = lookups[i].hash
                   /\ emitLog'[k].to = sockets
      /\ \A k \in NewGitEvents : emitLog'[k].type # "unknown"
      /\ \A i \in 1..Len(watchers) :
           LET lastLine == GetLastLine(watchers[i].repoPath)
           IN (Processed(i) /\ lastLine # NoLine /\ lastLine[1].new = NULL)
              => lookups' = lookups /\ emitLog' = emitLog ]_vars

\* A reset entry (no commit, merge or checkout in its action) is the last
\* line of the reference log and a commit ChangeEvent of the log-tail channel
\* for its hash went to the subscriber; later an entry without a hash was
\* processed.
C32_Witness ==
  /\ \E k \in 1..Len(emitLog) :
       /\ Dispatched(k) /\ emitLog[k].src = "watcher"
       /\ emitLog[k].type = "commit"
       /\ reflog["A"] # NoLine
       /\ ~ reflog["A"][1].c /\ ~ reflog["A"][1].m /\ ~ reflog["A"][1].k
       /\ reflog["A"][1].new = emitLog[k].commit
       /\ gitWatcher # 0
       /\ watchers[gitWatcher].lastProcessedLine = reflog["A"]

\* C33: every watcher that is Watching is the one the application refers
\* to, and its repository path is the current repository path and the path
\* of the current reader; so at most one watcher is Watching.
C33_AtMostOneActiveWatcher ==
  \A i \in 1..Len(watchers) :
    IsWatching(watchers[i])
    => /\ i = gitWatcher
       /\ watchers[i].repoPath = currentRepoPath
       /\ watchers[i].repoPath = gitService

\* ------------------------------------------------------------- replay
\* The window's renderer picks repository A, gets the baseline and replays
\* it, while the push channel reports commits of A.
ReplayLoads == 1
ReplayGitActs == 1
ReplayPosts == 1
ReplayRuns == 2

ReplayBudget(nl, na, np, nr) ==
  [loads |-> nl, acts |-> na, posts |-> np, fs |-> 0, conn |-> 1,
   replays |-> nr]

ReplayRequests ==
  [repo : {"A"}, event : {"commit"}, hash : {Hash("A", 1), Hash("A", 2)},
   ref : {NULL}, remote : {NULL}, branch : {NULL}]

InitReplay ==
  InitWith(ReplayBudget(ReplayLoads, ReplayGitActs, ReplayPosts, ReplayRuns))

NextReplay ==
  \/ Connect("s1")
  \/ GitAct("A", "commit")
  \/ HandleRepoSelected("s1", "A")
  \/ LoadRepoReturns("s1")
  \/ \E i \in 1..Len(loads), ok \in BOOLEAN : LogDone(i, ok)
  \/ \E event \in ReplayRequests : HookPost(event)
  \/ \E i \in 1..Len(lookups) :
       LookupDone(i, CommitResolves(lookups[i].svc, lookups[i].hash))
  \/ HandleReplay("s1")
  \/ \E k \in 1..Len(ui["s1"].replays) : ReplayStart("s1", k)
  \/ \E k \in 1..Len(ui["s1"].replays) : ReplayStep("s1", k)
  \/ HandleStopReplay("s1")

SpecReplay == InitReplay /\ [][NextReplay]_vars

\* C34: the commit list of every renderer holds no two entries with the
\* same id.
C34_NoDuplicateCommits ==
  \A c \in Clients : \A i, j \in 1..Len(commits[c]) :
    i # j => commits[c][i] # commits[c][j]

\* ------------------------------------------------- load and first view
\* The window's renderer picks a path while its socket connects, drops and
\* reconnects.  Promises settle, the ipc call returns, and socket.io-client
\* (re)connects while the server listens: these steps are weakly fair.
ShowLoads == 2
ShowConns == 3

InitShow == InitWith(Budget(ShowLoads, 0, 0, 0, ShowConns))

NextShow ==
  \/ Connect("s1")
  \/ Disconnect("s1")
  \/ \E p \in Selectable : HandleRepoSelected("s1", p)
  \/ \E i \in 1..Len(loads), ok \in BOOLEAN : LogDone(i, ok)
  \/ LoadRepoReturns("s1")

SpecShow ==
  /\ InitShow
  /\ [][NextShow]_vars
  /\ WF_vars(Connect("s1"))
  /\ WF_vars(\E i \in 1..Len(loads), ok \in BOOLEAN : LogDone(i, ok))
  /\ WF_vars(LoadRepoReturns("s1"))

\* The load-repo call of renderer c has returned success.
LoadSucceeded(c) == ui[c].repoPath # NULL /\ ui[c].ipc = 0

\* C35: once a load-repo call has returned success to the renderer, the
\* renderer eventually is not in its loading state.
C35_LoadedEventuallyShown ==
  \A c \in Clients : LoadSucceeded(c) ~> ~ ui[c].loading

\* The replay runs of renderer c that end in this step.
EndingNow(c) ==
  {k \in 1..Len(ui[c].replays) :
     ui[c].replays[k].pc # "done" /\ ui'[c].replays[k].pc = "done"}

\* The replay runs of renderer c whose loop has not ended.
Running(u) == {k \in 1..Len(u.replays) : u.replays[k].pc # "done"}

\* C36: when a replay ends, stopped or not, the commit list holds exactly
\* the commits it held when the replay started; when it ends without having
\* been stopped the list is in oldest-first date order; and at most one
\* replay loop is running at any time.
C36_ReplayPreservesHistory ==
  [][\A c \in Clients :
       /\ \A k \in EndingNow(c) :
            LET r == ui'[c].replays[k]
            IN /\ Range(commits'[c]) = Range(r.sortedCommits)
               /\ ~ r.stopped => commits'[c] = SortByDate(commits'[c])
       /\ Cardinality(Running(ui'[c])) <= 1]_vars

\* ------------------------------------------------------- ConfigStore
\* Direct calls of setLastRepoPath and addRecentRepo on the store.  Each
\* call names a path that is not in the list, the first path of the list
\* or its last one.
RecentCalls == 11

RecentPaths ==
  <<"p01", "p02", "p03", "p04", "p05", "p06", "p07", "p08", "p09", "p10",
    "p11", "p12", "p13">>

RecentInputs ==
  LET fresh == {k \in 1..Len(RecentPaths) :
                  RecentPaths[k] \notin Range(recentRepos)}
      first == CHOOSE k \in fresh : \A j \in fresh : k <= j
  IN {RecentPaths[first]}
       \cup (IF recentRepos = <<>> THEN {}
             ELSE {recentRepos[1], recentRepos[Len(recentRepos)]})

\* configStore.addRecentRepo(p)
AddRecentRepoCall(p) ==
  /\ Spend("calls")
  /\ recentRepos' = AddRecentRepo(recentRepos, p)
  /\ UNCHANGED <<ui, raw, currentRepoPath, gitService, gitWatcher, loads,
                 lastLoad, lastRepoPath, watchers, lookups, diskVars,
                 socketVars, emitLog, commits, posted, servers>>

\* configStore.setLastRepoPath(p)
SetLastRepoPath(p) ==
  /\ Spend("calls")
  /\ lastRepoPath' = p
  /\ recentRepos' = AddRecentRepo(recentRepos, p)
  /\ UNCHANGED <<ui, raw, currentRepoPath, gitService, gitWatcher, loads,
                 lastLoad, watchers, lookups, diskVars, socketVars, emitLog,
                 commits, posted, servers>>

InitRecent == InitWith(UnitBudget(RecentCalls, 0, 0))

NextRecent ==
  \/ \E p \in RecentInputs : AddRecentRepoCall(p)
  \/ \E p \in RecentInputs : SetLastRepoPath(p)

SpecRecent == InitRecent /\ [][NextRecent]_vars

\* The list holds no path twice.
NoDuplicatePath(recent) ==
  \A i, j \in 1..Len(recent) : i # j => recent[i] # recent[j]

\* C37: after a call that adds path p the stored list holds no path twice,
\* has at most maxRecentRepos entries and has p first; and when p was in the
\* list before, the list has the length and the paths it had.
C37_RecentReposList ==
  [][\A p \in Range(RecentPaths) \cup Paths :
       (AddRecentRepoCall(p) \/ SetLastRepoPath(p))
       => /\ NoDuplicatePath(recentRepos')
          /\ Len(recentRepos') <= MaxRecentRepos
          /\ Head(recentRepos') = p
          /\ p \in Range(recentRepos)
               => /\ Len(recentRepos') = Len(recentRepos)
                  /\ Range(recentRepos') = Range(recentRepos)]_vars

\* The list is full, the path it held at first has been pushed out by the
\* tenth new one, and the oldest path left was then added again: it is
\* first, before the newest.
C37_Witness ==
  /\ Len(recentRepos) = MaxRecentRepos
  /\ NoGitDir \notin Range(recentRepos)
  /\ recentRepos[1] = "p01"
  /\ recentRepos[2] = "p10"

====
